---- MODULE Spec2Model ----
(***************************************************************************)
(* Agent orchestration engine of davidzech27/thread: the agent() async     *)
(* generator, the AGENT_TREE registry, queryUser / userIntervention, the   *)
(* fork / wait closures of runMainAgent (backend ai.ts) and the WebSocket  *)
(* server that drives them (backend/src/index.ts).                         *)
(*                                                                         *)
(* One action is one turn of the JavaScript event loop: the code that runs *)
(* from the settlement of one awaited promise (an oracle call, a chunk of  *)
(* the model stream, a human answer) to the next await on an external      *)
(* event.  A yield hands its value to the consumer and the consumer's      *)
(* next() resumes the generator in promise reactions of the same turn, so  *)
(* a yield, its forwarding by the parent generators and by the WebSocket   *)
(* loop, and the statements after the yield belong to one action.          *)
(***************************************************************************)
EXTENDS Integers, Sequences, FiniteSets, TLC

\* ------------------------------------------------------------------ bounds
\* A run is explored under one of three scenarios, chosen in Init; each one
\* bounds the tasks created, the connections opened, the questions the
\* oracle decides to ask, the user-intervention messages (and whether they
\* may override the status), the python tool calls and the chunks one
\* runMainAgent stream produces.
AskTasks == 1
AskConns == 2
AskQueries == 3
AskInterventions == 1
TreeTasks == 3
TreeConns == 1
TreeQueries == 1
TreeInterventions == 1
ForkTasks == 3
ForkConns == 1
ForkScripts == 2
AskChunks == 2
TreeChunks == 1
ForkChunks == 0
MaxRoots == 1          \* start-agent messages
MaxLines == 2          \* lines the oracle returns for subquestions
ForkRequests == 2      \* requests one script sends
BridgeTasks == 2
BridgeConns == 1
BridgeScripts == 2
BridgeRequests == 2
BridgeForged == 1      \* terminal lines the user code of a script writes itself
OrphanTasks == 2
OrphanConns == 1
OrphanInterventions == 1
OrphanChunks == 2
ApiTasks == 2
ApiConns == 1
ApiChunks == 1
ApiCalls == 1          \* calls of exported functions by a user of the module
CapTasks == 6
CapConns == 1
CapChunks == 2
CapLines == 5          \* lines the oracle returns for subquestions, above the cap
SyncTasks == 1
SyncConns == 1
SyncQueries == 5       \* questions the oracle is ready to ask, above the bound
KillTasks == 1
KillConns == 1
KillInterventions == 1
KillScripts == 1
KillChunks == 1
ThreadTasks == 3
ThreadConns == 1
ThreadScripts == 1
ThreadRequests == 3
ThreadLines == 1       \* lines a second thread of a script writes during a wait
JoinTasks == 2
JoinConns == 1
JoinScripts == 1
JoinRequests == 2
JoinForged == 1
JoinLines == 1

Scenarios ==
    {[name |-> "ask", tasks |-> AskTasks, conns |-> AskConns,
      queries |-> AskQueries, interventions |-> AskInterventions,
      statusOverrides |-> TRUE, scripts |-> 0, chunks |-> AskChunks,
      requests |-> 0, forged |-> 0, missing |-> FALSE, apiCalls |-> 0, threads |-> 0, lines |-> 0..MaxLines],
     [name |-> "tree", tasks |-> TreeTasks, conns |-> TreeConns,
      queries |-> TreeQueries, interventions |-> TreeInterventions,
      statusOverrides |-> FALSE, scripts |-> 0, chunks |-> TreeChunks,
      requests |-> 0, forged |-> 0, missing |-> FALSE, apiCalls |-> 0, threads |-> 0, lines |-> 0..MaxLines],
     [name |-> "fork", tasks |-> ForkTasks, conns |-> ForkConns,
      queries |-> 0, interventions |-> 0,
      statusOverrides |-> FALSE, scripts |-> ForkScripts, chunks |-> ForkChunks,
      requests |-> ForkRequests, forged |-> 0, missing |-> FALSE, apiCalls |-> 0, threads |-> 0, lines |-> 0..MaxLines],
     [name |-> "bridge", tasks |-> BridgeTasks, conns |-> BridgeConns,
      queries |-> 0, interventions |-> 0,
      statusOverrides |-> FALSE, scripts |-> BridgeScripts, chunks |-> 0,
      requests |-> BridgeRequests, forged |-> BridgeForged, missing |-> TRUE, apiCalls |-> 0, threads |-> 0, lines |-> 0..MaxLines],
     [name |-> "orphan", tasks |-> OrphanTasks, conns |-> OrphanConns,
      queries |-> 0, interventions |-> OrphanInterventions,
      statusOverrides |-> FALSE, scripts |-> 0, chunks |-> OrphanChunks,
      requests |-> 0, forged |-> 0, missing |-> FALSE, apiCalls |-> 0, threads |-> 0, lines |-> 0..MaxLines],
     [name |-> "api", tasks |-> ApiTasks, conns |-> ApiConns,
      queries |-> 0, interventions |-> 0,
      statusOverrides |-> FALSE, scripts |-> 0, chunks |-> ApiChunks,
      requests |-> 0, forged |-> 0, missing |-> FALSE, apiCalls |-> ApiCalls, threads |-> 0, lines |-> 0..MaxLines],
     [name |-> "cap", tasks |-> CapTasks, conns |-> CapConns,
      queries |-> 0, interventions |-> 0,
      statusOverrides |-> FALSE, scripts |-> 0, chunks |-> CapChunks,
      requests |-> 0, forged |-> 0, missing |-> FALSE, apiCalls |-> 0, threads |-> 0,
      lines |-> {0, CapLines}],
     [name |-> "sync", tasks |-> SyncTasks, conns |-> SyncConns,
      queries |-> SyncQueries, interventions |-> 0,
      statusOverrides |-> FALSE, scripts |-> 0, chunks |-> 0,
      requests |-> 0, forged |-> 0, missing |-> FALSE, apiCalls |-> 0, threads |-> 0,
      lines |-> {0}],
     [name |-> "kill", tasks |-> KillTasks, conns |-> KillConns,
      queries |-> 0, interventions |-> KillInterventions,
      statusOverrides |-> FALSE, scripts |-> KillScripts, chunks |-> KillChunks,
      requests |-> 0, forged |-> 0, missing |-> FALSE, apiCalls |-> 0, threads |-> 0,
      lines |-> {0}],
     [name |-> "threads", tasks |-> ThreadTasks, conns |-> ThreadConns,
      queries |-> 0, interventions |-> 0,
      statusOverrides |-> FALSE, scripts |-> ThreadScripts, chunks |-> 0,
      requests |-> ThreadRequests, forged |-> 0, missing |-> FALSE, apiCalls |-> 0,
      threads |-> ThreadLines, lines |-> {0}],
     [name |-> "join", tasks |-> JoinTasks, conns |-> JoinConns,
      queries |-> 0, interventions |-> 0,
      statusOverrides |-> FALSE, scripts |-> JoinScripts, chunks |-> 0,
      requests |-> JoinRequests, forged |-> JoinForged, missing |-> TRUE, apiCalls |-> 0,
      threads |-> JoinLines, lines |-> {0}]}

Max(S) == CHOOSE x \in S : \A y \in S : y <= x

MaxTasks == Max({sc.tasks : sc \in Scenarios})
MaxConns == Max({sc.conns : sc \in Scenarios})

\* -------------------------------------------------------- program constants
SubquestionCap == 4        \* .slice(0, 4) in generateAsyncSubquestions
SyncedQuestionBound == 3   \* let maxSyncedQuestions = 3
FirstHandle == 1           \* let nextHandle = 1

TaskIds == 1..MaxTasks
Conns == 1..MaxConns
Handles == 1..MaxTasks     \* arguments tried for wait()
NoConn == 0
NoTask == 0

Null == "null"         \* JavaScript null / undefined
Undef == "undefined"   \* a field absent from an overrides object

AgentStatus == {"running", "completed", "deleted", "modified", "error", "awaiting_user"}
Terminal == {"completed", "error", "deleted"}

\* the goal text, the human's answers and an intervener's content are opaque
Goal == "goal"
Answers == {Null, "answer"}
DeletedResult == "Agent deleted by user"
ErrorResult == "error.message"
SummaryText == "summary"
SubQuestion == "subquestion"   \* a line of generateAsyncSubquestions
ForkPrompt == "fork prompt"    \* the argument of fork

VARIABLES
    scenario,          \* the bounds of this run
    agents,            \* the AgentState object of every agent() call
    kind,              \* who consumes the generator: "root" | "sub" | "fork"
    pc,                \* the await each agent() call is suspended on
    loc,               \* arguments and local variables of agent()
    AGENT_TREE,        \* keys of the registry Map
    sink,              \* per task, what ws.send forwarded of its stream (latest)
    nextId,            \* next value of randomUUID()
    queryUserHandler,  \* connection whose closure is the handler, or NoConn
    conn,              \* per connection "new" | "open" | "closed"
    queryResolvers,    \* per connection, keys of ws.queryResolvers
    promise,           \* per task, the promise queryUser awaits
    asked,             \* questions the oracle has decided to ask
    agentCompleted,    \* per root, agent-completed messages sent
    lastIntervention,  \* outcome of the latest user-intervention message
    interventions,     \* user-intervention messages handled
    scripts,           \* python tool calls so far
    py,                \* per task, the sandbox subprocess of executePython and
                       \* what its script has got back from fork and wait
    forks,             \* per task, the forks Map: handle -> forked task
    nextHandle,        \* per task, nextHandle of runMainAgent
    treeView           \* the object a caller of getAgentTree() holds

vars == <<scenario, agents, kind, pc, loc, AGENT_TREE, sink, nextId,
          queryUserHandler, conn, queryResolvers, promise, asked,
          agentCompleted, lastIntervention, interventions, scripts, py,
          forks, nextHandle, treeView>>

\* The state as one record, so that a code path is a composition of functions
\* on it.
World ==
    [agents |-> agents, kind |-> kind, pc |-> pc, loc |-> loc,
     AGENT_TREE |-> AGENT_TREE, sink |-> sink, nextId |-> nextId,
     queryUserHandler |-> queryUserHandler, conn |-> conn,
     queryResolvers |-> queryResolvers, promise |-> promise, asked |-> asked,
     agentCompleted |-> agentCompleted, lastIntervention |-> lastIntervention,
     interventions |-> interventions, scripts |-> scripts, py |-> py,
     forks |-> forks,
     nextHandle |-> nextHandle, treeView |-> treeView]

Commit(w) ==
    /\ agents' = w.agents
    /\ kind' = w.kind
    /\ pc' = w.pc
    /\ loc' = w.loc
    /\ AGENT_TREE' = w.AGENT_TREE
    /\ sink' = w.sink
    /\ nextId' = w.nextId
    /\ queryUserHandler' = w.queryUserHandler
    /\ conn' = w.conn
    /\ queryResolvers' = w.queryResolvers
    /\ promise' = w.promise
    /\ asked' = w.asked
    /\ agentCompleted' = w.agentCompleted
    /\ lastIntervention' = w.lastIntervention
    /\ interventions' = w.interventions
    /\ scripts' = w.scripts
    /\ py' = w.py
    /\ forks' = w.forks
    /\ nextHandle' = w.nextHandle
    /\ treeView' = w.treeView
    /\ UNCHANGED scenario

\* ----------------------------------------------------------- initial state
NoAgent ==
    [parentId |-> NoTask, userContent |-> <<>>, userComment |-> "unchanged",
     status |-> "none", subagents |-> <<>>, messages |-> <<>>, result |-> Null]

\* With the locals of agent(): clarification, how the query of STEP 1 ended;
\* lines, the lines of the response the children were spawned from;
\* syncQueries, the calls of queryUser made by the loop of STEP 2;
\* syncAbsent, whether one of them has returned null while the loop runs.
NoLocals ==
    [prompt |-> Null, parentId |-> NoTask, messages |-> <<>>,
     maxSyncedQuestions |-> 0,
     hasUsedBrowserTools |-> FALSE, subagentsSpawned |-> FALSE,
     subagentIds |-> <<>>, drained |-> 0, subResults |-> <<>>,
     chunks |-> 0, textResult |-> "", clarification |-> "none", lines |-> 0,
     syncQueries |-> 0, syncAbsent |-> FALSE]

\* No call of getAgentTree() yet.  ids: the keys of the object returned;
\* entries: per key the fields copied by value at the call; shared: the keys
\* whose subagents field is the task's own array (subagents: state.subagents)
NoView == [taken |-> FALSE, ids |-> {}, entries |-> <<>>, shared |-> {}]

NoEvent == [type |-> "none", status |-> "none", result |-> Null, n |-> 0]

NoPromise == [state |-> "none", value |-> Null, resolveCalls |-> 0]

NoWait == [handle |-> 0, outcome |-> "none", value |-> Null]

NoRequest == [id |-> 0, call |-> "none", arg |-> 0]

NoReply == [id |-> 0, ok |-> FALSE, result |-> Null]

\* The py variable of runMainAgent with both ends of the bridge.
\* state: "none" | "running" | "waiting" (in wait) | "exited" | "closed";
\* script: which python tool call it runs; handles: what fork has returned to
\* the script, in order; wait: its latest wait call; ids, waiters: _ids and
\* _waiters of the sandbox; request, reply, replies: the latest request, the
\* latest reply and the replies written since that request; raised: an
\* exception of a failed call is in flight; sent: the terminal lines written
\* to stdout; result: the result promise, "none" | "pending" | "resolved" |
\* "rejected"; hung: calls of
\* executePython that await the result of a killed subprocess; backlog: the
\* lines written to stdout that the stdout loop has not read yet
NoPython ==
    [state |-> "none", script |-> 0, handles |-> <<>>, wait |-> NoWait,
     ids |-> 0, waiters |-> {}, request |-> NoRequest, reply |-> NoReply,
     replies |-> 0, raised |-> FALSE, sent |-> <<>>, result |-> "none",
     hung |-> 0, backlog |-> <<>>]

Init ==
    /\ scenario \in Scenarios
    /\ agents = [t \in TaskIds |-> NoAgent]
    /\ kind = [t \in TaskIds |-> "none"]
    /\ pc = [t \in TaskIds |-> "none"]
    /\ loc = [t \in TaskIds |-> NoLocals]
    /\ AGENT_TREE = {}
    /\ sink = [t \in TaskIds |-> [last |-> NoEvent, finals |-> 0]]
    /\ nextId = 1
    /\ queryUserHandler = NoConn
    /\ conn = [c \in Conns |-> "new"]
    /\ queryResolvers = [c \in Conns |-> {}]
    /\ promise = [t \in TaskIds |-> NoPromise]
    /\ asked = 0
    /\ agentCompleted = [t \in TaskIds |-> 0]
    /\ lastIntervention = [found |-> FALSE, reply |-> "none"]
    /\ interventions = 0
    /\ scripts = 0
    /\ py = [t \in TaskIds |-> NoPython]
    /\ forks = [t \in TaskIds |-> <<>>]
    /\ nextHandle = [t \in TaskIds |-> 0]
    /\ treeView = NoView

\* ------------------------------------------------- events sent to the sink
Snapshot(w, t) ==
    [type |-> "agent-state", status |-> w.agents[t].status,
     result |-> w.agents[t].result, n |-> 0]

\* a forwarded chunk that is the one produced before the current one
ChunkBehind(k, i) == [type |-> k, status |-> "none", result |-> Null, n |-> i - 1]

Chunk(k, i) == [type |-> k, status |-> "none", result |-> Null, n |-> i]

\* Whether what agent t yields reaches ws.send: the root's stream is consumed
\* by the start-agent loop, a subquestion child's by its parent's drain loop,
\* which yields every chunk on; fork's loop keeps nothing of a chunk.
RECURSIVE Connected(_, _)
Connected(w, t) ==
    CASE w.kind[t] = "root" -> TRUE
      [] w.kind[t] \in {"fork", "api"} -> FALSE
      [] OTHER -> Connected(w, w.loc[t].parentId)

\* ws.send(JSON.stringify(chunk)): the model keeps, per task, the latest
\* event forwarded and how many of its events were terminal snapshots
Emit(w, t, ev) ==
    IF Connected(w, t)
    THEN [w EXCEPT !.sink[t] =
            [last |-> ev,
             finals |-> @.finals + (IF ev.status \in Terminal THEN 1 ELSE 0)]]
    ELSE w

\* ------------------------------------------------------------- queryUser
\* queryUser up to its await; called only when queryUserHandler is set.
Ask(w, t, askPc) ==
    [w EXCEPT
       !.agents[t].status = IF t \in w.AGENT_TREE THEN "awaiting_user" ELSE @,
       !.queryResolvers[w.queryUserHandler] = @ \cup {t},
       !.promise[t] = [state |-> "pending", value |-> Null, resolveCalls |-> 0],
       !.asked = @ + 1,
       !.pc[t] = askPc]

\* the finally block of queryUser
AfterQuery(w, t) ==
    [w EXCEPT
       !.agents[t].status = IF @ = "awaiting_user" THEN "running" ELSE @,
       !.promise[t] = NoPromise]

\* resolve(v) of the promise agent a awaits: only the first call settles it
Resolve(w, a, v) ==
    [w EXCEPT
       !.promise[a] =
          [state |-> "resolved",
           value |-> IF @.state = "pending" THEN v ELSE @.value,
           resolveCalls |-> @.resolveCalls + 1]]

\* ----------------------------------------------------------------- agent()
\* const subResults = subagentIds.map(id => AGENT_TREE.get(id) ...)
SubResultOf(w, id) ==
    IF id \in w.AGENT_TREE
    THEN [agentId |-> id,
          result |-> IF w.agents[id].result = "" THEN Null ELSE w.agents[id].result,
          status |-> w.agents[id].status]
    ELSE [agentId |-> id, result |-> Null, status |-> "completed"]

\* STEP 6 up to the await of summarizeWithAI
Collect(w, p) ==
    [w EXCEPT
       !.loc[p].subResults =
          [i \in 1..Len(w.loc[p].subagentIds) |-> SubResultOf(w, w.loc[p].subagentIds[i])],
       !.pc[p] = "summarize"]

RECURSIVE Begin(_, _)

\* DrainNext that drains the first generator only and then collects
DrainFirstOnly(w, p) ==
    LET k == w.loc[p].drained + 1
    IN IF k = 1 /\ Len(w.loc[p].subagentIds) >= 1
       THEN Begin([w EXCEPT !.loc[p].drained = k, !.pc[p] = "drain"],
                  w.loc[p].subagentIds[k])
       ELSE Collect(w, p)

\* "Process subagent streams": start draining the next generator, or collect
DrainNext(w, p) ==
    LET k == w.loc[p].drained + 1
    IN IF k <= Len(w.loc[p].subagentIds)
       THEN Begin([w EXCEPT !.loc[p].drained = k, !.pc[p] = "drain"],
                  w.loc[p].subagentIds[k])
       ELSE Collect(w, p)

\* Return whose start-agent loop sends nothing after the stream has ended
ReturnSilent(w, t) ==
    CASE w.kind[t] = "sub" -> DrainNext(w, w.loc[t].parentId)
      [] OTHER -> w

\* The generator of t has returned: what its consumer does next.
Return(w, t) ==
    CASE w.kind[t] = "root" -> [w EXCEPT !.agentCompleted[t] = @ + 1]
      [] w.kind[t] = "sub" -> DrainNext(w, w.loc[t].parentId)
      [] OTHER -> w

\* Once the generator has returned nothing reads its locals any more, and of
\* its state object (unreachable after the eviction) the model keeps what the
\* last snapshot showed, with how the clarification query of the run ended.
Forget(w, t) ==
    [w EXCEPT
       !.loc[t] = [NoLocals EXCEPT !.prompt = w.loc[t].prompt,
                                   !.parentId = w.loc[t].parentId,
                                   !.clarification = w.loc[t].clarification],
       !.agents[t].userContent = <<>>,
       !.agents[t].messages = <<>>,
       !.agents[t].userComment = "unchanged"]

\* set status and result, yield the snapshot, AGENT_TREE.delete, return
Finalize(w, t, st, res) ==
    LET w1 == [w EXCEPT !.agents[t].status = st, !.agents[t].result = res]
        w2 == Emit(w1, t, Snapshot(w1, t))
        w3 == [w2 EXCEPT !.AGENT_TREE = @ \ {t}, !.pc[t] = "done"]
    IN Return(Forget(w3, t), t)

\* if (state.userComment === "delete") { ... return } before STEP 2, then
\* let maxSyncedQuestions = 3 and the first decideSyncedQuestion
DeleteCheckSync(w, t) ==
    IF w.agents[t].userComment = "delete"
    THEN Finalize(w, t, "deleted", DeletedResult)
    ELSE [w EXCEPT !.loc[t].maxSyncedQuestions = SyncedQuestionBound,
                   !.pc[t] = "sync"]

\* DeleteCheckMain without the check: the main stream starts whatever the
\* comment says
DeleteCheckMainSkipped(w, t) ==
    [w EXCEPT
       !.agents[t].messages =
          IF w.loc[t].prompt # Null THEN Append(@, w.loc[t].prompt) ELSE @,
       !.forks[t] = <<>>, !.nextHandle[t] = FirstHandle, !.pc[t] = "main"]

\* the same check after STEP 3, the prompt pushed to state.messages, then the
\* first next() of runMainAgent(state): const forks = new Map();
\* let nextHandle = 1; streamText(...)
DeleteCheckMain(w, t) ==
    IF w.agents[t].userComment = "delete"
    THEN Finalize(w, t, "deleted", DeletedResult)
    ELSE [w EXCEPT
            !.agents[t].messages =
               IF w.loc[t].prompt # Null THEN Append(@, w.loc[t].prompt) ELSE @,
            !.forks[t] = <<>>, !.nextHandle[t] = FirstHandle,
            !.pc[t] = "main"]

\* first next() of the generator: build state, register, yield initial state
Begin(w, t) ==
    LET prompt == w.loc[t].prompt
        state == [parentId |-> w.loc[t].parentId,
                  userContent |-> IF prompt = Null THEN <<>> ELSE <<prompt>>,
                  userComment |-> "unchanged", status |-> "running",
                  subagents |-> <<>>, messages |-> w.loc[t].messages,
                  result |-> Null]
        w1 == [w EXCEPT !.agents[t] = state, !.AGENT_TREE = @ \cup {t}]
        w2 == Emit(w1, t, Snapshot(w1, t))
    IN IF prompt # Null
       THEN [w2 EXCEPT !.pc[t] = "clarify1"]
       ELSE DeleteCheckSync(w2, t)

\* an exception reaches catch: await browser.captureFinalScreenshot().catch()
Catch(w, t) == [w EXCEPT !.pc[t] = "catch"]

\* ClarResume with an absent answer treated as a failure of the run
ClarResumeAbsentFails(w, t, v) ==
    LET w1 == AfterQuery(w, t)
    IN IF v # Null
       THEN DeleteCheckSync([w1 EXCEPT !.agents[t].userContent = <<v>>,
                                       !.agents[t].messages = Append(@, v),
                                       !.loc[t].clarification = "answered"], t)
       ELSE Catch([w1 EXCEPT !.loc[t].clarification = "absent"], t)

\* after the clarification query: adopt a truthy answer, then the delete check
ClarResume(w, t, v) ==
    LET w1 == AfterQuery(w, t)
        w2 == IF v # Null
              THEN [w1 EXCEPT !.agents[t].userContent = <<v>>,
                              !.agents[t].messages = Append(@, v),
                              !.loc[t].clarification = "answered"]
              ELSE [w1 EXCEPT !.loc[t].clarification = "absent"]
    IN DeleteCheckSync(w2, t)

\* the loop of STEP 2 is left (its counter is not read again) and STEP 3
\* awaits generateAsyncSubquestions
LeaveSync(w, t) ==
    [w EXCEPT !.loc[t].maxSyncedQuestions = 0, !.loc[t].syncAbsent = FALSE,
              !.pc[t] = "subq1"]

\* while (maxSyncedQuestions > 0)
LoopSync(w, t) ==
    IF w.loc[t].maxSyncedQuestions > 0
    THEN [w EXCEPT !.pc[t] = "sync"]
    ELSE LeaveSync(w, t)

\* state.userContent += `\n[User answered: ${syncAnswer}]`.  userContent is
\* modelled by the text it begins with, followed by one mark when answers
\* have been appended to it (however many).
Extended(content) ==
    IF Len(content) > 0 /\ content[Len(content)] = "[User answered]"
    THEN content
    ELSE Append(content, "[User answered]")

\* SyncResume without maxSyncedQuestions--
SyncResumeNoCount(w, t, v) ==
    LET w1 == AfterQuery(w, t)
        w2 == IF v # Null
              THEN [w1 EXCEPT !.agents[t].userContent = Extended(@),
                              !.agents[t].messages = Append(@, v)]
              ELSE w1
    IN LoopSync(w2, t)

\* after a blocking question: fold a truthy answer in, count down, loop
SyncResume(w, t, v) ==
    LET w1 == AfterQuery(w, t)
        w2 == IF v # Null
              THEN [w1 EXCEPT !.agents[t].userContent = Extended(@),
                              !.agents[t].messages = Append(@, v)]
              ELSE [w1 EXCEPT !.loc[t].syncAbsent = TRUE]
    IN LoopSync([w2 EXCEPT !.loc[t].maxSyncedQuestions = @ - 1], t)

\* what a decide... call of the oracle does: it returns a question, returns
\* the word for "no", or throws
OracleAnswers ==
    {"NO", "fail"} \cup (IF asked < scenario.queries THEN {"question"} ELSE {})

\* STEP 1, first decideNeedsClarification(input.prompt)
Clarify1(t) ==
    /\ pc[t] = "clarify1"
    /\ \E r \in OracleAnswers :
         Commit(CASE r = "fail" -> Catch(World, t)
                  [] r = "NO" -> DeleteCheckSync(World, t)
                  [] OTHER -> [World EXCEPT !.pc[t] = "clarify2"])

\* STEP 1, second decideNeedsClarification(input.prompt) and queryUser; when
\* it finds no question the prompt is pushed to state.messages
Clarify2(t) ==
    /\ pc[t] = "clarify2"
    /\ \E r \in OracleAnswers :
         Commit(CASE r = "fail" -> Catch(World, t)
                  [] r = "NO" ->
                       DeleteCheckSync(
                          [World EXCEPT !.agents[t].messages =
                                            Append(@, loc[t].prompt)], t)
                  [] OTHER -> IF queryUserHandler = NoConn
                              THEN ClarResume(World, t, Null)
                              ELSE Ask(World, t, "clarAsk"))

ClarAnswered(t) ==
    /\ pc[t] = "clarAsk"
    /\ promise[t].state = "resolved"
    /\ Commit(ClarResume(World, t, promise[t].value))

\* STEP 2, decideSyncedQuestion and queryUser
SyncDecide(t) ==
    /\ pc[t] = "sync"
    /\ \E r \in OracleAnswers :
         Commit(CASE r = "fail" -> Catch(World, t)
                  [] r = "NO" -> LeaveSync(World, t)
                  [] OTHER -> IF queryUserHandler = NoConn
                              THEN SyncResume(World, t, Null)
                              ELSE [Ask(World, t, "syncAsk") EXCEPT
                                      !.loc[t].syncQueries = @ + 1])

\* SyncAnswered with queryUser not awaited: the loop goes on with no answer
\* while the resolver is still stored
SyncAnsweredNoAwait(t) ==
    /\ pc[t] = "syncAsk"
    /\ Commit(SyncResume(World, t, promise[t].value))

SyncAnswered(t) ==
    /\ pc[t] = "syncAsk"
    /\ promise[t].state = "resolved"
    /\ Commit(SyncResume(World, t, promise[t].value))

\* STEP 3, generateAsyncSubquestions (its value is not used), the delete
\* check, and the first next() of runMainAgent
Subq1(t) ==
    /\ pc[t] = "subq1"
    /\ \E r \in {"lines", "fail"} :
         Commit(IF r = "fail" THEN Catch(World, t)
                ELSE DeleteCheckMain(World, t))

ChunkKinds == {"text-delta", "tool-result-browser"}

\* one iteration of for await (const chunk of mainAgentGenerator)
MainChunk(t) ==
    /\ pc[t] = "main"
    /\ loc[t].chunks < scenario.chunks
    /\ \E k \in ChunkKinds :
         LET w0 == [World EXCEPT
                      !.loc[t].chunks = @ + 1,
                      !.loc[t].textResult = IF k = "text-delta" THEN "text" ELSE @]
             used == w0.loc[t].hasUsedBrowserTools \/ k = "tool-result-browser"
         IN Commit(
              CASE agents[t].userComment = "delete" ->
                     Finalize(w0, t, "deleted", DeletedResult)
                [] agents[t].userComment = "modify" ->
                     Emit(w0, t, Snapshot(w0, t))
                [] OTHER ->
                     LET w1 == Emit(w0, t, Chunk(k, w0.loc[t].chunks))
                     IN IF used /\ ~w1.loc[t].subagentsSpawned
                        THEN [w1 EXCEPT !.loc[t].hasUsedBrowserTools = TRUE,
                                        !.loc[t].subagentsSpawned = TRUE,
                                        !.pc[t] = "subq2"]
                        ELSE [w1 EXCEPT !.loc[t].hasUsedBrowserTools = used])

Min(a, b) == IF a < b THEN a ELSE b

\* generateAsyncSubquestions that returns every line of the response
SliceAll(lines) == lines

\* generateAsyncSubquestions: response.split("\n") ... .slice(0, 4), as the
\* number of subquestions returned for a response of that many lines
Slice(lines) == Min(lines, SubquestionCap)

\* for (const subq of subquestions): ids nextId .. nextId + n - 1
RECURSIVE Spawn(_, _, _)
Spawn(w, t, n) ==
    IF n = 0 THEN w
    ELSE LET id == w.nextId
         IN Spawn([w EXCEPT !.nextId = @ + 1,
                            !.agents[t].subagents = Append(@, id),
                            !.loc[t].subagentIds = Append(@, id),
                            !.kind[id] = "sub",
                            !.loc[id].parentId = t,
                            !.loc[id].messages =
                               Append(w.agents[t].messages, SubQuestion),
                            !.pc[id] = "created"], t, n - 1)

\* STEP 5, generateAsyncSubquestions on the enriched history, and the spawn
Subq2(t) ==
    /\ pc[t] = "subq2"
    /\ \/ Commit(Catch(World, t))
       \/ \E lines \in scenario.lines :
            /\ nextId + Slice(lines) - 1 <= scenario.tasks
            /\ Commit(Spawn([World EXCEPT !.pc[t] = "main", !.loc[t].lines = lines],
                            t, Slice(lines)))

\* the model stream ends (every call of executePython has returned): onFinish
\* closes the subprocess, runMainAgent stores
\* textResult, the main loop is left (its locals are not read again) and the
\* drain starts
MainEnd(t) ==
    /\ pc[t] = "main"
    /\ py[t].result # "pending"
    /\ py[t].hung = 0
    /\ LET falsy == agents[t].result \in {Null, ""}
               w1 == [World EXCEPT
                    !.agents[t].result = IF falsy THEN loc[t].textResult ELSE @,
                    !.py[t] = IF @.state = "none" THEN @
                              ELSE [NoPython EXCEPT !.state = "closed"],
                    !.loc[t].chunks = 0,
                    !.loc[t].lines = 0,
                    !.loc[t].textResult = "",
                    !.loc[t].hasUsedBrowserTools = FALSE,
                    !.loc[t].subagentsSpawned = FALSE]
       IN Commit(DrainNext(w1, t))

\* the model stream throws
MainFail(t) ==
    /\ pc[t] = "main"
    /\ Commit(Catch(World, t))

\* The responses of the summarization oracle, as the line they end with: the
\* flag line the prompt asks for, with yes or with no
FlagYes == "NEEDS_MORE_INFO: yes"
FlagNo == "NEEDS_MORE_INFO: no"
Responses == {FlagYes, FlagNo}

\* String.prototype.toLowerCase on those lines
toLowerCase(text) ==
    CASE text = FlagYes -> "needs_more_info: yes"
      [] text = FlagNo -> "needs_more_info: no"
      [] OTHER -> text

\* String.prototype.includes on those lines
includes(text, searched) == text = searched

\* const needsMoreInfo = response.toLowerCase().includes("NEEDS_MORE_INFO: yes")
NeedsMoreInfo(response) == includes(toLowerCase(response), FlagYes)

\* what follows summarizeWithAI: if (needsMoreInfo) the final question, else
\* await browser.captureFinalScreenshot().  No response makes needsMoreInfo
\* true, so the model has no step that leaves "final".
AfterSummary(w, t, response) ==
    [w EXCEPT !.pc[t] = IF NeedsMoreInfo(response) THEN "final" ELSE "screenshot"]

\* summarizeWithAI returns or throws
Summarize(t) ==
    /\ pc[t] = "summarize"
    /\ \/ Commit(Catch(World, t))
       \/ \E response \in Responses : Commit(AfterSummary(World, t, response))

\* state.result = summary; state.status = "completed"; yield; delete; return
Complete(t) ==
    /\ pc[t] = "screenshot"
    /\ \/ Commit(Catch(World, t))
       \/ Commit(Finalize(World, t, "completed", SummaryText))

\* Fail of a subquestion child whose exception goes on into the parent's
\* drain loop
FailPropagates(t) ==
    /\ pc[t] = "catch"
    /\ LET w1 == Finalize(World, t, "error", ErrorResult)
       IN Commit(IF kind[t] = "sub" THEN Catch(w1, loc[t].parentId) ELSE w1)

\* catch: state.status = "error"; state.result = error.message; yield; delete
Fail(t) ==
    /\ pc[t] = "catch"
    /\ Commit(Finalize(World, t, "error", ErrorResult))

\* ------------------------------------------- runMainAgent: executePython
\* streamText is running its steps while agent() awaits a chunk or the
\* subquestions of STEP 5
MainLive == {"main", "subq2"}

\* the python tool is called: if (py) py.close(); py = python(code, {fork, wait})
\* and await py.result.  The result promise of a subprocess killed before its
\* terminal message stays pending: that call of executePython never returns.
ExecPython(t) ==
    /\ pc[t] \in MainLive
    /\ scripts < scenario.scripts
    /\ Commit([World EXCEPT
                 !.scripts = @ + 1,
                 !.py[t] = [NoPython EXCEPT
                              !.state = "running",
                              !.script = scripts + 1,
                              !.result = "pending",
                              !.hung = py[t].hung +
                                 (IF py[t].result = "pending" THEN 1 ELSE 0)]])

\* fork whose agent() generator is created but not iterated before fork
\* returns (as the subquestion generators are)
forkLazy(w, t) ==
    LET handle == w.nextHandle[t]
        child == w.nextId
    IN [w EXCEPT !.nextHandle[t] = @ + 1,
                 !.nextId = @ + 1,
                 !.kind[child] = "fork",
                 !.loc[child].parentId = t,
                 !.loc[child].messages = Append(w.agents[t].messages, ForkPrompt),
                 !.pc[child] = "created",
                 !.forks[t] = @ @@ (handle :> child)]

\* function fork(prompt): number, with the forkPromise closure up to its
\* first await, which runs the forked agent() to its first yield; the handle
\* it returns is the value nextHandle had
fork(w, t) ==
    LET handle == w.nextHandle[t]
        child == w.nextId
        w1 == [w EXCEPT !.nextHandle[t] = @ + 1,
                        !.nextId = @ + 1,
                        !.kind[child] = "fork",
                        !.loc[child].parentId = t,
                        !.loc[child].messages =
                           Append(w.agents[t].messages, ForkPrompt)]
        w2 == Begin(w1, child)
    IN [w2 EXCEPT !.forks[t] = @ @@ (handle :> child)]

\* async function wait(handle): throws on a handle the Map does not hold,
\* else awaits the fork's promise
wait(w, t, h) ==
    IF h \notin DOMAIN w.forks[t]
    THEN [w EXCEPT !.py[t].wait = [handle |-> h, outcome |-> "error", value |-> Null]]
    ELSE [w EXCEPT !.py[t].wait = [handle |-> h, outcome |-> "pending", value |-> Null],
                   !.py[t].state = "waiting"]

\* let result = ""; for await (const chunk of stream) if (typeof chunk ===
\* "string") result = chunk: agent() yields objects only, and for await drops
\* the generator's return value, so the fork's promise resolves to ""
ForkResult(childResult) == ""

\* ------------------------------------------------ the bridge of python()
\* python(code, { fork, wait }); a script can name any function in a request
ApiNames == {"fork", "wait"}
Missing == "missing"

\* sandbox side, __js_call up to q.get(): rid = next(_ids), the waiter is
\* registered under rid and the request line is written
Request(p, call, arg) ==
    LET rid == p.ids + 1
    IN [p EXCEPT !.ids = rid,
                 !.waiters = @ \cup {rid},
                 !.request = [id |-> rid, call |-> call, arg |-> arg],
                 !.replies = 0]

\* sandbox side, _stdin_worker and the rest of __js_call: a reply goes to the
\* waiter registered under its id and to nobody else; the woken call returns
\* the result or raises RuntimeError
Deliver(p, msg) ==
    IF msg.id \notin p.waiters THEN p
    ELSE LET q == [p EXCEPT !.waiters = @ \ {msg.id}, !.state = "running"]
         IN CASE ~msg.ok -> [q EXCEPT !.raised = TRUE]
              [] p.request.call = "fork" -> [q EXCEPT !.handles = Append(@, msg.result)]
              [] OTHER -> q

\* a reply that carries the id of the first request
ReplyFirstId(w, t, ok, result) ==
    LET msg == [id |-> 1, ok |-> ok, result |-> result]
    IN [w EXCEPT !.py[t] = Deliver([@ EXCEPT !.reply = msg, !.replies = @ + 1], msg)]

\* orchestrator side: writeln(JSON.stringify({ id, ok: true, result })) or
\* ({ id, ok: false, error }), read by the sandbox
Reply(w, t, ok, result) ==
    LET msg == [id |-> w.py[t].request.id, ok |-> ok, result |-> result]
    IN [w EXCEPT !.py[t] = Deliver([@ EXCEPT !.reply = msg, !.replies = @ + 1], msg)]

\* orchestrator side, the stdout loop on a request line: const fn = api[call];
\* if (!fn) throw ...; const result = await fn(...args); one writeln in try
\* or in catch
Serve(w, t) ==
    LET req == w.py[t].request
    IN CASE req.call \notin ApiNames -> Reply(w, t, FALSE, "No such JS function")
         [] req.call = "fork" -> Reply(fork(w, t), t, TRUE, w.nextHandle[t])
         [] OTHER ->
              LET w1 == wait(w, t, req.arg)
              IN IF w1.py[t].wait.outcome = "error"
                 THEN Reply(w1, t, FALSE, "No fork with handle")
                 ELSE w1

\* a call of an orchestrator function by the script, up to the reply or to
\* the await of the function
Call(w, t, call, arg) ==
    Serve([w EXCEPT !.py[t] = Request(@, call, arg)], t)

\* the script is executing (not blocked in a call, no exception in flight)
\* and the stdout loop has read every line written so far
Runnable(t) ==
    /\ pc[t] \in MainLive
    /\ py[t].state = "running"
    /\ ~py[t].raised
    /\ py[t].backlog = <<>>

\* the script calls fork(prompt)
Fork(t) ==
    /\ Runnable(t)
    /\ py[t].ids < scenario.requests
    /\ nextId <= scenario.tasks
    /\ Commit(Call(World, t, "fork", 0))

\* the script calls wait(handle)
Wait(t, h) ==
    /\ Runnable(t)
    /\ h <= scenario.tasks
    /\ py[t].ids < scenario.requests
    /\ Commit(Call(World, t, "wait", h))

\* the script sends a request that names a function the api does not hold
CallMissing(t) ==
    /\ Runnable(t)
    /\ scenario.missing
    /\ py[t].ids < scenario.requests
    /\ Commit(Call(World, t, Missing, 0))

\* the script catches the RuntimeError of a failed call
ScriptCatch(t) ==
    /\ pc[t] \in MainLive
    /\ py[t].state = "running"
    /\ py[t].raised
    /\ Commit([World EXCEPT !.py[t].raised = FALSE])

\* WaitReturn with no regard for the forked agent
WaitReturnEarly(t) ==
    /\ pc[t] \in MainLive
    /\ py[t].state = "waiting"
    /\ LET child == forks[t][py[t].wait.handle]
           text == ForkResult(agents[child].result)
       IN Commit(Reply([World EXCEPT !.py[t].wait.outcome = "returned",
                                     !.py[t].wait.value = text], t, TRUE, text))

\* the forked agent() has returned, the fork's promise resolves, wait returns
\* and the reply wakes the script
WaitReturn(t) ==
    /\ pc[t] \in MainLive
    /\ py[t].state = "waiting"
    /\ pc[forks[t][py[t].wait.handle]] = "done"
    /\ LET child == forks[t][py[t].wait.handle]
           text == ForkResult(agents[child].result)
       IN Commit(Reply([World EXCEPT !.py[t].wait.outcome = "returned",
                                     !.py[t].wait.value = text], t, TRUE, text))

\* the stdout loop on a terminal line that resolves whatever its type
SettleResolves(p, type) ==
    [p EXCEPT !.sent = Append(@, type),
              !.result = IF @ = "pending" THEN "resolved" ELSE @]

\* the stdout loop on a terminal line: {type: "result"} -> resolveResult,
\* {type: "error"} -> rejectResult; only the first call settles the promise,
\* and executePython returns its text ("Result: ..." / "Error: ...")
Settle(p, type) ==
    [p EXCEPT !.sent = Append(@, type),
              !.result = IF @ = "pending"
                         THEN (IF type = "result" THEN "resolved" ELSE "rejected")
                         ELSE @]

\* the user code itself writes a line to stdout that parses as a terminal
\* message, and runs on
PrintTerminal(t) ==
    /\ Runnable(t)
    /\ Len(py[t].sent) < scenario.forged
    /\ \E type \in {"result", "error"} :
         Commit([World EXCEPT !.py[t] = Settle(@, type)])

\* how the script ends: the bootstrap's {type: "result"}, its {type: "error"}
\* for an exception of class Exception, or an exit with no terminal message
\* (sys.exit, a signal); an exception in flight leaves only the second
EndKinds(p) == IF p.raised THEN {"error"} ELSE {"result", "error", "exit"}

\* the script ends and the subprocess exits
ScriptEnd(t) ==
    /\ pc[t] \in MainLive
    /\ py[t].state = "running"
    /\ py[t].backlog = <<>>
    /\ \E end \in EndKinds(py[t]) :
         LET p == IF end = "exit" THEN py[t] ELSE Settle(py[t], end)
         IN Commit([World EXCEPT
                      !.py[t] = [NoPython EXCEPT !.state = "exited",
                                                 !.sent = p.sent,
                                                 !.result = p.result,
                                                 !.hung = p.hung]])

\* sandbox side, a thread other than the one blocked in wait: __js_call up to
\* q.get() (the request line is written to stdout), or the main thread's
\* terminal line of the bootstrap
ThreadLine(p, call) ==
    IF call = "result"
    THEN [p EXCEPT !.backlog = Append(@, [id |-> 0, call |-> call, arg |-> 0])]
    ELSE LET rid == p.ids + 1
         IN [p EXCEPT !.ids = rid,
                      !.waiters = @ \cup {rid},
                      !.backlog = Append(@, [id |-> rid, call |-> call, arg |-> 0])]

\* while the stdout loop awaits wait(handle), another thread of the script
\* calls fork, or the script's code ends and the terminal line is written
ThreadWrite(t) ==
    /\ pc[t] \in MainLive
    /\ py[t].state = "waiting"
    /\ Len(py[t].backlog) < scenario.threads
    /\ \E call \in {"fork", "result"} :
         /\ call = "fork" => (py[t].ids < scenario.requests /\ nextId <= scenario.tasks)
         /\ Commit([World EXCEPT !.py[t] = ThreadLine(@, call)])

\* the next iteration of for await (const line of stdout), reached when the
\* await of the previous line's function is over
ReadLine(t) ==
    /\ pc[t] \in MainLive
    /\ py[t].state = "running"
    /\ py[t].backlog # <<>>
    /\ LET line == Head(py[t].backlog)
           w1 == [World EXCEPT !.py[t].backlog = Tail(@)]
       IN Commit(IF line.call = "result"
                 THEN [w1 EXCEPT !.py[t] = Settle(@, "result")]
                 ELSE Serve([w1 EXCEPT !.py[t].request = line,
                                       !.py[t].replies = 0], t))

\* ------------------------------------------------------- WebSocket server
\* open(ws): setQueryUserHandler(closure over ws)
WsOpen(c) ==
    /\ conn[c] = "new"
    /\ c <= scenario.conns
    /\ Commit([World EXCEPT !.conn[c] = "open", !.queryUserHandler = c])

RECURSIVE ResolveAll(_, _, _)
ResolveAll(w, S, v) ==
    IF S = {} THEN w
    ELSE LET a == CHOOSE x \in S : TRUE
         IN ResolveAll(Resolve(w, a, v), S \ {a}, v)

\* close(ws): resolve(null) for every resolver, then clear
WsClose(c) ==
    /\ conn[c] = "open"
    /\ Commit([ResolveAll(World, queryResolvers[c], Null) EXCEPT
                 !.conn[c] = "closed", !.queryResolvers[c] = {}])

\* message: start-agent, up to the first await of the agent stream
StartAgent(c) ==
    /\ conn[c] = "open"
    /\ nextId <= scenario.tasks
    /\ Cardinality({t \in TaskIds : kind[t] = "root"}) < MaxRoots
    /\ Commit(Begin([World EXCEPT !.nextId = @ + 1,
                                  !.kind[nextId] = "root",
                                  !.loc[nextId].prompt = Goal], nextId))

\* the agentId values tried in client messages: the ids of the run and one
\* that no task of the run has
Addressed == {a \in TaskIds : a <= scenario.tasks + 1}

\* user-response without ws.queryResolvers.delete(data.agentId)
UserResponseKeepsResolver(c, a, v) ==
    /\ conn[c] = "open"
    /\ a \in Addressed
    /\ Commit(IF a \in queryResolvers[c] THEN Resolve(World, a, v) ELSE World)

\* message: user-response
UserResponse(c, a, v) ==
    /\ conn[c] = "open"
    /\ a \in Addressed
    /\ Commit(IF a \in queryResolvers[c]
              THEN [Resolve(World, a, v) EXCEPT !.queryResolvers[c] = @ \ {a}]
              ELSE World)

\* the overrides objects tried: a delete, a modify with new content, and a
\* status override to a terminal status, to the transient one, to running and
\* to awaiting_user
OverrideStatuses == {"completed", "modified", "running", "awaiting_user"}

Overrides ==
    {[userComment |-> "delete", userContent |-> Undef, status |-> Undef],
     [userComment |-> "modify", userContent |-> "edited", status |-> Undef]}
    \cup [userComment : {Undef}, userContent : {Undef}, status : OverrideStatuses]

\* export async function userIntervention(agentId, overrides): Promise<boolean>
userIntervention(w, a, o) ==
    IF a \notin w.AGENT_TREE THEN w
    ELSE [w EXCEPT
            !.agents[a].userComment = IF o.userComment # Undef THEN o.userComment ELSE @,
            !.agents[a].userContent = IF o.userContent # Undef THEN <<o.userContent>> ELSE @,
            !.agents[a].status = IF o.status # Undef THEN o.status ELSE @]

\* message: user-intervention
UserIntervention(c, a, o) ==
    /\ conn[c] = "open"
    /\ a \in Addressed
    /\ interventions < scenario.interventions
    /\ o.status # Undef => scenario.statusOverrides
    /\ Commit([userIntervention(World, a, o) EXCEPT
                 !.interventions = @ + 1,
                 !.lastIntervention = [found |-> a \in AGENT_TREE,
                                       reply |-> "intervention-success"]])

Next ==
    \/ \E t \in TaskIds : Clarify1(t)
    \/ \E t \in TaskIds : Clarify2(t)
    \/ \E t \in TaskIds : ClarAnswered(t)
    \/ \E t \in TaskIds : SyncDecide(t)
    \/ \E t \in TaskIds : SyncAnswered(t)
    \/ \E t \in TaskIds : Subq1(t)
    \/ \E t \in TaskIds : MainChunk(t)
    \/ \E t \in TaskIds : Subq2(t)
    \/ \E t \in TaskIds : MainEnd(t)
    \/ \E t \in TaskIds : MainFail(t)
    \/ \E t \in TaskIds : Summarize(t)
    \/ \E t \in TaskIds : Complete(t)
    \/ \E t \in TaskIds : Fail(t)
    \/ \E t \in TaskIds : ExecPython(t)
    \/ \E t \in TaskIds : Fork(t)
    \/ \E t \in TaskIds, h \in Handles : Wait(t, h)
    \/ \E t \in TaskIds : WaitReturn(t)
    \/ \E t \in TaskIds : CallMissing(t)
    \/ \E t \in TaskIds : ScriptCatch(t)
    \/ \E t \in TaskIds : PrintTerminal(t)
    \/ \E t \in TaskIds : ScriptEnd(t)
    \/ \E t \in TaskIds : ThreadWrite(t)
    \/ \E t \in TaskIds : ReadLine(t)
    \/ \E c \in Conns : WsOpen(c)
    \/ \E c \in Conns : WsClose(c)
    \/ \E c \in Conns : StartAgent(c)
    \/ \E c \in Conns, a \in TaskIds, v \in Answers : UserResponse(c, a, v)
    \/ \E c \in Conns, a \in TaskIds, o \in Overrides : UserIntervention(c, a, o)

Spec == Init /\ [][Next]_vars

\* ------------------------------------------- agent() as an exported function
\* A user of the module calls agent({ prompt, agentId }) with an id of its own
\* choosing and iterates the generator: const agentId = input.agentId ||
\* randomUUID(), then AGENT_TREE.set(agentId, state) whatever the Map holds.
\* The model follows the call for an id whose earlier task has returned.
AgentWithId(id) ==
    /\ kind[id] = "root"
    /\ pc[id] = "done"
    /\ ~treeView.taken
    /\ Cardinality({t \in TaskIds : kind[t] = "api"}) < scenario.apiCalls
    /\ Commit(Begin([World EXCEPT !.kind[id] = "api",
                                  !.loc[id] = [NoLocals EXCEPT !.prompt = Goal]], id))

\* getAgentTree(): one entry per key of AGENT_TREE, built from the fields of
\* the state object without messages; the strings are copied, subagents is
\* the array of the state object itself
getAgentTree(w) ==
    [taken |-> TRUE,
     ids |-> w.AGENT_TREE,
     entries |-> [t \in w.AGENT_TREE |->
                    [parentId |-> w.agents[t].parentId,
                     userContent |-> w.agents[t].userContent,
                     userComment |-> w.agents[t].userComment,
                     status |-> w.agents[t].status,
                     subagents |-> w.agents[t].subagents,
                     result |-> w.agents[t].result]],
     shared |-> w.AGENT_TREE]

\* what the holder of the returned object reads in it now
ViewNow(t) ==
    IF t \in treeView.shared
    THEN [treeView.entries[t] EXCEPT !.subagents = agents[t].subagents]
    ELSE treeView.entries[t]

\* a user of the module calls getAgentTree() and keeps what it returns
GetAgentTree ==
    /\ ~treeView.taken
    /\ Cardinality({t \in TaskIds : kind[t] = "api"}) < scenario.apiCalls
    /\ Commit([World EXCEPT !.treeView = getAgentTree(World)])

NextApi ==
    \/ Next
    \/ \E id \in TaskIds : AgentWithId(id)
    \/ GetAgentTree

SpecApi == Init /\ [][NextApi]_vars

\* ------------------------------------------------------- fair scheduling
\* The steps of the orchestrator for task t: the continuations of agent() and
\* of the bridge's stdout loop.  The event loop runs a continuation that is
\* ready; what the oracle, the human and a script do is left to them.
Step(t) ==
    \/ Clarify1(t) \/ Clarify2(t) \/ ClarAnswered(t)
    \/ SyncDecide(t) \/ SyncAnswered(t)
    \/ Subq1(t) \/ MainChunk(t) \/ Subq2(t) \/ MainEnd(t) \/ MainFail(t)
    \/ Summarize(t) \/ Complete(t) \/ Fail(t)
    \/ WaitReturn(t) \/ ReadLine(t)

\* The runs checked under fairness: a deletion during a script, the blocking
\* questions, a subquestion child, and a script that forks and waits.
LiveScenarios == {sc \in Scenarios : sc.name \in {"kill", "sync", "api", "join"}}

InitFair == Init /\ scenario \in LiveScenarios

SpecFair == InitFair /\ [][Next]_vars /\ WF_vars(\E t \in TaskIds : Step(t))

\* ------------------------------------------------------------- properties
\* the root a task hangs under, along the parentId links
RECURSIVE RootOf(_)
RootOf(t) == IF kind[t] = "root" THEN t ELSE RootOf(loc[t].parentId)

\* agent() has run for t (a spawned generator not yet iterated has not)
Started(t) == pc[t] \notin {"none", "created"}

\* C1: every change of a task's status, by the scheduler or by a status
\* override of userIntervention, follows an edge of the state machine:
\* running -> completed | error | deleted | awaiting_user, awaiting_user ->
\* running | deleted, modified -> running (with running -> modified, the
\* way into the transient marker); nothing leaves a terminal status and
\* nothing becomes terminal without passing through running.
C1_StatusFollowsEdges ==
    [][\A t \in TaskIds :
         LET from == agents[t].status
             to == agents'[t].status
         IN (from # "none" /\ to # from) =>
              <<from, to>> \in {<<"running", "completed">>, <<"running", "error">>,
                                <<"running", "deleted">>, <<"running", "awaiting_user">>,
                                <<"awaiting_user", "running">>,
                                <<"awaiting_user", "deleted">>,
                                <<"running", "modified">>,
                                <<"modified", "running">>}]_vars

\* C2: for every task that was created (root, subquestion child, forked
\* child), once its run has ended its final agent-state event, carrying a
\* terminal status, has been delivered to the sink of the root stream.
C2_FinalEventDelivered ==
    \A t \in TaskIds :
        pc[t] = "done" =>
            /\ sink[t].last.type = "agent-state"
            /\ sink[t].last.status \in Terminal
            /\ sink[t].finals = 1

\* C3: a task whose status is completed, error or deleted is no longer in the
\* registry, and once a root run and all its descendants have finished the
\* registry holds none of their ids.
C3_TerminalEvicted ==
    /\ \A t \in TaskIds : agents[t].status \in Terminal => t \notin AGENT_TREE
    /\ \A r \in TaskIds :
          (kind[r] = "root" /\
           \A t \in TaskIds : (Started(t) /\ RootOf(t) = r) => pc[t] = "done")
          => \A t \in TaskIds : (Started(t) /\ RootOf(t) = r) => t \notin AGENT_TREE

\* C4: agent-completed is sent at most once per start-agent, exactly once
\* when the root stream has ended, and when it has been sent the root and
\* every descendant that was started, forked children nobody waited for
\* included, has a terminal status.
C4_CompletedAfterAllTerminal ==
    \A r \in TaskIds :
        kind[r] = "root" =>
            /\ agentCompleted[r] <= 1
            /\ pc[r] = "done" <=> agentCompleted[r] = 1
            /\ agentCompleted[r] = 1 =>
                 \A t \in TaskIds :
                     (Started(t) /\ RootOf(t) = r) => agents[t].status \in Terminal

\* C5: when the clarification query of a task is answered with an absent
\* value (and nobody asked for its deletion meanwhile) the task is not
\* finalized: it stays registered, no terminal snapshot is emitted, the
\* awaiting_user status goes back to running, its content stays what it was,
\* the original goal text when nobody intervened, and it goes on to the
\* blocking questions.
C5_AbsentClarificationProceeds ==
    [][\A t \in TaskIds :
         (loc[t].clarification = "none" /\ loc'[t].clarification = "absent"
          /\ agents[t].userComment # "delete") =>
            /\ pc'[t] = "sync"
            /\ t \in AGENT_TREE'
            /\ sink'[t].finals = 0
            /\ agents'[t].status = (IF agents[t].status = "awaiting_user"
                                    THEN "running" ELSE agents[t].status)
            /\ agents'[t].userContent = agents[t].userContent
            /\ interventions = 0 =>
                 /\ agents'[t].status = "running"
                 /\ agents'[t].userContent = <<Goal>>]_vars

\* a task whose clarification query was answered absent has completed
C5_Witness ==
    \E t \in TaskIds :
        /\ loc[t].clarification = "absent"
        /\ pc[t] = "done"
        /\ agents[t].status = "completed"
        /\ sink[t].last.status = "completed"

\* C6: when a task passes one of its checkpoints (before the blocking
\* questions, before the main stream, at each chunk of the main stream) with
\* comment = delete, that step emits the snapshot with status deleted as the
\* latest event of the task, removes it from the registry and ends its run,
\* and leaves the parent draining its children; after the end of its run
\* nothing more is emitted for the task.
C6_DeleteAtCheckpoint ==
    [][\A t \in TaskIds :
         LET atCheckpoint ==
                \/ pc[t] \in {"clarify1", "clarify2", "clarAsk"} /\ pc'[t] \in {"sync", "done"}
                \/ pc[t] = "subq1" /\ pc'[t] \in {"main", "done"}
                \/ pc[t] = "main" /\ (pc'[t] \in {"subq2", "done"}
                                      \/ (pc'[t] = "main"
                                          /\ loc'[t].chunks = loc[t].chunks + 1))
             p == loc[t].parentId
         IN /\ (atCheckpoint /\ agents[t].userComment = "delete") =>
                 /\ pc'[t] = "done"
                 /\ agents'[t].status = "deleted"
                 /\ t \notin AGENT_TREE'
                 /\ Connected(World, t) =>
                      sink'[t] = [last |-> [type |-> "agent-state", status |-> "deleted",
                                            result |-> DeletedResult, n |-> 0],
                                  finals |-> sink[t].finals + 1]
                 /\ kind[t] = "sub" =>
                      /\ pc'[p] \in {"drain", "summarize"}
                      /\ p \in AGENT_TREE'
                      /\ agents'[p].status = agents[p].status
            /\ pc[t] = "done" =>
                 /\ pc'[t] = "done"
                 /\ sink'[t] = sink[t]
                 /\ t \notin AGENT_TREE']_vars

\* a child was deleted at a checkpoint; its sibling and its parent completed
C6_Witness ==
    \E p, a, b \in TaskIds :
        /\ a # b
        /\ kind[a] = "sub" /\ loc[a].parentId = p
        /\ kind[b] = "sub" /\ loc[b].parentId = p
        /\ pc[a] = "done" /\ sink[a].last.status = "deleted"
        /\ pc[b] = "done" /\ sink[b].last.status = "completed"
        /\ pc[p] = "done" /\ sink[p].last.status = "completed"

\* C7: a user-intervention that names an id the registry does not hold is
\* not acknowledged as a success and changes no task's comment, content or
\* status.
C7_UnknownIdRejected ==
    [][(interventions' = interventions + 1 /\ ~lastIntervention'.found) =>
          /\ lastIntervention'.reply # "intervention-success"
          /\ agents' = agents]_vars

\* C8: the resolver of a human query is called at most once, and a resolver
\* that is still stored belongs to a query not yet resolved, so that a later
\* response or a close finds nothing to resolve.
C8_ResolvedAtMostOnce ==
    \A t \in TaskIds :
        /\ promise[t].resolveCalls <= 1
        /\ \A c \in Conns : t \in queryResolvers[c] => promise[t].state = "pending"

\* a query was answered and the connection was closed afterwards
C8_Witness ==
    /\ \E t \in TaskIds :
          promise[t] = [state |-> "resolved", value |-> "answer", resolveCalls |-> 1]
    /\ \E c \in Conns : conn[c] = "closed"
    /\ \A c \in Conns : conn[c] # "open"

\* C9: a task id has at most one pending query, and a task with a pending
\* query is suspended in queryUser, so it stores no further query before the
\* pending one is resolved.
C9_OnePendingQueryPerTask ==
    \A t \in TaskIds :
        /\ Cardinality({c \in Conns : t \in queryResolvers[c]}) <= 1
        /\ (\E c \in Conns : t \in queryResolvers[c]) => pc[t] \in {"clarAsk", "syncAsk"}

\* a second query of a task is pending, on a connection that is no longer the
\* one the handler sends on
C9_Witness ==
    \E t \in TaskIds, c \in Conns :
        /\ t \in queryResolvers[c]
        /\ asked >= 2
        /\ queryUserHandler # c

\* C10: the handles fork returns to one script are strictly increasing and
\* start at 1, and a wait on a handle that was never issued raises an error
\* and creates no task.
C10_HandlesFromOne ==
    [][\A t \in TaskIds :
         LET hs == py'[t].handles
             w == py'[t].wait
         IN /\ (hs # py[t].handles /\ hs # <<>>) =>
                 /\ hs[1] = 1
                 /\ \A i \in 1..(Len(hs) - 1) : hs[i] < hs[i + 1]
            /\ (w # py[t].wait /\ w.outcome \in {"error", "pending"}
                /\ w.handle \notin DOMAIN forks[t]) =>
                 /\ w.outcome = "error"
                 /\ nextId' = nextId
                 /\ kind' = kind
                 /\ AGENT_TREE' = AGENT_TREE]_vars

\* C11: a fork(prompt) call creates exactly one new task, registered when
\* fork returns, whose parentId is the calling task and whose history is the
\* caller's history at that moment followed by the prompt; the handle is
\* returned to the script while the child has made no progress beyond its
\* first await.
C11_ForkCreatesOneChild ==
    [][\A t \in TaskIds :
         (py'[t].handles # py[t].handles /\ py'[t].handles # <<>>) =>
            LET child == nextId
                created == {c \in TaskIds : kind[c] = "none" /\ kind'[c] # "none"}
            IN /\ created = {child}
               /\ nextId' = nextId + 1
               /\ AGENT_TREE' = AGENT_TREE \cup {child}
               /\ child \notin AGENT_TREE
               /\ agents'[child].parentId = t
               /\ agents'[child].messages = Append(agents[t].messages, ForkPrompt)
               /\ agents'[child].status = "running"
               /\ pc'[child] = "sync"
               /\ py'[t].state = "running"
               /\ forks'[t][py'[t].handles[Len(py'[t].handles)]] = child]_vars

\* a script holds the handle of a forked child that is registered and has not
\* moved yet, its history being the caller's with the prompt appended
C11_Witness ==
    \E t, c \in TaskIds :
        /\ py[t].handles # <<>>
        /\ forks[t][py[t].handles[1]] = c
        /\ c \in AGENT_TREE
        /\ pc[c] = "sync"
        /\ agents[c].parentId = t
        /\ agents[c].messages = Append(agents[t].messages, ForkPrompt)
        /\ Len(agents[c].messages) >= 2

\* C12: a wait on an issued handle returns only when the child behind the
\* handle has left agent() with a terminal status.
C12_WaitReturnsAfterTerminal ==
    [][\A t \in TaskIds :
         (py'[t].wait.outcome = "returned" /\ py[t].wait.outcome # "returned") =>
            LET child == forks[t][py[t].wait.handle]
            IN /\ py[t].wait.outcome = "pending"
               /\ py[t].wait.handle \in DOMAIN forks[t]
               /\ pc[child] = "done"
               /\ agents[child].status \in Terminal
               /\ child \notin AGENT_TREE]_vars

C12_Witness ==
    \E t \in TaskIds :
       /\ py[t].wait.outcome = "returned"
       /\ \E i \in DOMAIN py[t].handles : py[t].handles[i] = py[t].wait.handle
       /\ agents[forks[t][py[t].wait.handle]].status \in Terminal

\* C13: the text a wait returns is the result field the child had when it
\* became terminal.
C13_WaitReturnsChildResult ==
    \A t \in TaskIds :
       py[t].wait.outcome = "returned" =>
          py[t].wait.value = agents[forks[t][py[t].wait.handle]].result

\* C14: every request of a sandbox gets exactly one reply, with the id of the
\* request: ok with the result of the function when the function exists and
\* returns, not ok when it is missing or throws, and none while the function
\* has not returned; the reply wakes the waiter registered under its id and
\* no other.
C14_OneReplyPerRequest ==
    [][\A t \in TaskIds :
         LET req == py'[t].request
             rep == py'[t].reply
             requested == py'[t].request.id > 0 /\ py'[t].request # py[t].request
             replied == py'[t].replies > 0 /\ (requested \/ py[t].replies = 0)
             awaits == req.call = "wait" /\ req.arg \in DOMAIN forks[t]
         IN /\ py'[t].replies <= 1
            /\ requested =>
                 /\ req.id > py[t].request.id
                 /\ req.id <= py'[t].ids
                 /\ req.id \in py[t].waiters <=> req.id <= py[t].ids
                 /\ replied <=> ~awaits
            /\ (requested /\ ~replied) =>
                 /\ py'[t].waiters = py[t].waiters \cup {req.id}
                 /\ py'[t].state = "waiting"
            /\ replied =>
                 /\ rep.id = req.id
                 /\ rep.ok <=> (req.call = "fork" \/ awaits)
                 /\ (req.call = "fork") =>
                      /\ rep.result = nextHandle[t]
                      /\ forks'[t][rep.result] = nextId
                      /\ py'[t].handles = Append(py[t].handles, rep.result)
                 /\ (req.call = "wait" /\ rep.ok) =>
                      /\ pc[forks[t][req.arg]] = "done"
                      /\ rep.result = py'[t].wait.value
                 /\ py'[t].waiters = (py[t].waiters \cup {req.id}) \ {rep.id}
                 /\ rep.id \notin py'[t].waiters
                 /\ py'[t].state = "running"
                 /\ py'[t].raised <=> ~rep.ok]_vars

C14_Witness ==
    \E t \in TaskIds :
       /\ py[t].ids = 2
       /\ py[t].request = [id |-> 2, call |-> "wait", arg |-> 1]
       /\ py[t].reply.id = 2
       /\ py[t].reply.ok
       /\ py[t].replies = 1
       /\ py[t].waiters = {}

\* C15: the result promise of python() settles once and the first terminal
\* line decides how: {type: "result"} resolves, {type: "error"} rejects; a
\* script that ends on the uncaught error of an orchestrator function, no
\* terminal line having gone before, is rejected; later terminal lines leave
\* the settled promise as it is.
C15_ResultSettlesOnce ==
    [][\A t \in TaskIds :
         LET p == py[t]
             q == py'[t]
             sameCall == scripts' = scripts /\ q.state # "closed"
         IN /\ q.sent = <<>> => q.result \in {"none", "pending"}
            /\ q.sent # <<>> =>
                 q.result = IF q.sent[1] = "result" THEN "resolved" ELSE "rejected"
            /\ (sameCall /\ p.result \in {"resolved", "rejected"}) =>
                 q.result = p.result
            /\ (sameCall /\ p.raised /\ p.sent = <<>> /\ q.state = "exited") =>
                 q.result = "rejected"]_vars

C15_Witness ==
    \E t \in TaskIds :
       /\ Len(py[t].sent) = 2
       /\ py[t].sent[1] = "result"
       /\ py[t].sent[2] = "error"
       /\ py[t].result = "resolved"

\* C16: every call of executePython returns a text: none is left awaiting the
\* result of a subprocess that has exited or has been killed.
C16_ExecutePythonReturns ==
    \A t \in TaskIds :
       /\ py[t].hung = 0
       /\ py[t].result = "pending" => py[t].state \in {"running", "waiting"}

\* C17: when a task has been deleted at a checkpoint, every subquestion child
\* it had spawned is running or has ended: none is left unstarted.
C17_OrphansStillRun ==
    \A c \in TaskIds :
       (/\ kind[c] = "sub"
        /\ pc[loc[c].parentId] = "done"
        /\ agents[loc[c].parentId].status = "deleted") =>
          pc[c] # "created"

\* C18: a task is registered only under an id that no task has run under
\* before; in particular never under the id of a task the registry has
\* evicted.
C18_EvictedIdNeverReused ==
    [][\A t \in TaskIds :
         (t \in AGENT_TREE' /\ t \notin AGENT_TREE) =>
            pc[t] \in {"none", "created"}]_vars

AskPoints == {"clarAsk", "syncAsk"}

\* C20: the status of a registered task is awaiting_user exactly while the
\* task is suspended in queryUser: it is set on entry, kept while no
\* intervention is made, found nowhere else, and on resumption it becomes
\* running unless an intervention has changed it meanwhile, whose value is
\* then kept (until the resumed run finalizes the task).
C20_AwaitingWhileInAsk ==
    [][\A t \in TaskIds :
         /\ (t \in AGENT_TREE' /\ agents'[t].status = "awaiting_user") =>
               pc'[t] \in AskPoints
         /\ (pc[t] \notin AskPoints /\ pc'[t] \in AskPoints) =>
               agents'[t].status = "awaiting_user"
         /\ (pc[t] \in AskPoints /\ pc'[t] \in AskPoints
             /\ interventions' = interventions) =>
               agents'[t].status = agents[t].status
         /\ (pc[t] \in AskPoints /\ pc'[t] \notin AskPoints /\ pc'[t] # "done") =>
               agents'[t].status =
                  IF agents[t].status = "awaiting_user" THEN "running"
                  ELSE agents[t].status]_vars

\* C21: the failure of a child stays in the child.  In the step in which a
\* subquestion child or a forked child leaves its catch block it has status
\* error and the cause as result, its snapshot is sent on and it is evicted;
\* its parent is not sent to its own catch block and no other task changes
\* status, except the next sibling, which the parent's drain loop starts.
C21_ChildFailureContained ==
    [][\A c \in TaskIds :
         (kind[c] \in {"sub", "fork"} /\ pc[c] = "catch" /\ pc'[c] = "done") =>
            LET p == loc[c].parentId
            IN /\ agents'[c].status = "error"
               /\ agents'[c].result = ErrorResult
               /\ c \notin AGENT_TREE'
               /\ Connected(World, c) =>
                    sink'[c] = [last |-> [type |-> "agent-state", status |-> "error",
                                          result |-> ErrorResult, n |-> 0],
                                finals |-> sink[c].finals + 1]
               /\ agents'[p].status = agents[p].status
               /\ kind[c] = "fork" => pc'[p] = pc[p]
               /\ kind[c] = "sub" => pc'[p] \in {"drain", "summarize"}
               /\ \A s \in TaskIds \ {c} :
                    \/ agents'[s].status = agents[s].status /\ pc'[s] = pc[s]
                    \/ s = p
                    \/ /\ pc[s] = "created" /\ loc[s].parentId = p
                       /\ agents'[s].status = "running"]_vars

C21_Witness ==
    \E p, a, b \in TaskIds :
        /\ a # b
        /\ kind[a] = "sub" /\ loc[a].parentId = p
        /\ kind[b] = "sub" /\ loc[b].parentId = p
        /\ pc[a] = "done" /\ agents[a].status = "error"
        /\ pc[b] = "done" /\ agents[b].status = "completed"
        /\ pc[p] = "done" /\ agents[p].status = "completed"

\* the subquestion children task t has spawned so far
ChildrenOf(t) == {c \in TaskIds : kind[c] = "sub" /\ loc[c].parentId = t}

\* C22: a task has at most 4 subquestion children, whatever the number of
\* lines the oracle returned and however often a browser result arrives
\* during primary execution.
C22_AtMostFourChildren ==
    \A t \in TaskIds :
       /\ Cardinality(ChildrenOf(t)) <= SubquestionCap
       /\ Len(agents[t].subagents) <= SubquestionCap
       /\ Len(loc[t].subagentIds) <= SubquestionCap

C22_Witness ==
    \E t \in TaskIds :
       /\ loc[t].lines > SubquestionCap
       /\ Cardinality(ChildrenOf(t)) = SubquestionCap
       /\ loc[t].chunks = 2
       /\ loc[t].subagentsSpawned
       /\ pc[t] = "main"

\* C23: the loop of STEP 2 puts at most 3 queries to the human, answered or
\* not, however often the oracle finds a further question.
C23_AtMostThreeSyncQueries ==
    \A t \in TaskIds : loc[t].syncQueries <= SyncedQuestionBound

C23_Witness ==
    \E t \in TaskIds :
       /\ loc[t].syncQueries = SyncedQuestionBound
       /\ pc[t] = "subq1"
       /\ asked < scenario.queries
       /\ agents[t].messages = <<"answer">>

\* C24: what getAgentTree() returned holds exactly the tasks that were in
\* the registry at the call, and what its holder reads in it stays what it
\* was at the call, whatever the tasks do afterwards.
C24_SnapshotImmutable ==
    treeView.taken =>
       \A t \in treeView.ids : ViewNow(t) = treeView.entries[t]

\* C25: an absent answer ends the loop of STEP 2: no further blocking
\* question is put to a task whose loop has had an absent answer.
C25_AbsentAnswerEndsLoop ==
    \A t \in TaskIds : loc[t].syncAbsent => pc[t] # "syncAsk"

\* C26: a subquestion child starts running when it is spawned: every child
\* that has been spawned has been started and, until it ends, is registered.
C26_ChildrenStartAtSpawn ==
    \A c \in TaskIds :
       kind[c] = "sub" =>
          /\ Started(c)
          /\ pc[c] # "done" => c \in AGENT_TREE

\* C27: a child suspended in a query to the human does not hold up its
\* siblings: while it is suspended each sibling has been started and so can
\* run to its end.
C27_SuspendedChildLeavesSiblings ==
    \A a, b \in TaskIds :
       (/\ a # b
        /\ kind[a] = "sub" /\ kind[b] = "sub"
        /\ loc[a].parentId = loc[b].parentId
        /\ pc[a] \in AskPoints) =>
          Started(b)

\* C28: a parent neither starts its summarization nor emits the snapshot of
\* its completion before every subquestion child it spawned has returned with
\* a terminal status.
C28_JoinBeforeSummary ==
    [][\A p \in TaskIds :
         (\/ pc[p] # "summarize" /\ pc'[p] = "summarize"
          \/ /\ pc[p] = "screenshot" /\ pc'[p] = "done"
             /\ agents'[p].status = "completed") =>
            \A c \in TaskIds :
               (kind'[c] = "sub" /\ loc'[c].parentId = p) =>
                  /\ pc'[c] = "done"
                  /\ agents'[c].status \in Terminal
                  /\ c \notin AGENT_TREE']_vars

C28_Witness ==
    \E p \in TaskIds :
       /\ pc[p] = "summarize"
       /\ Cardinality(ChildrenOf(p)) = 2
       /\ \A c \in ChildrenOf(p) : pc[c] = "done" /\ agents[c].status \in Terminal
       /\ \E c \in ChildrenOf(p) : agents[c].status = "deleted"

\* C29: what the parent records of a subquestion child at the join, and hands
\* to its summarization, is the child's own final result and terminal status.
C29_JoinRecordsChildOutcome ==
    \A p \in TaskIds :
       pc[p] = "summarize" =>
          \A i \in DOMAIN loc[p].subResults :
             LET r == loc[p].subResults[i]
             IN /\ r.status = agents[r.agentId].status
                /\ r.result = agents[r.agentId].result

\* C30: after a checkpoint at which the comment modify was observed the task
\* is not finalized and its primary execution goes on: the next chunk of the
\* stream is forwarded to the sink.
C30_ModifyKeepsForwarding ==
    [][\A t \in TaskIds :
         (/\ pc[t] = "main"
          /\ agents[t].userComment = "modify"
          /\ loc[t].chunks >= 1
          /\ sink[t].last = Snapshot(World, t)
          /\ Connected(World, t)
          /\ loc'[t].chunks = loc[t].chunks + 1) =>
            /\ pc'[t] \in {"main", "subq2"}
            /\ t \in AGENT_TREE'
            /\ \E k \in ChunkKinds : sink'[t].last = Chunk(k, loc'[t].chunks)]_vars


\* C31: fork handles are scoped to one script execution: while a script of a
\* task runs, wait knows no handle but those issued to that script, and the
\* handle counter stands at the first handle plus the number issued to it.
C31_HandlesScopedToExecution ==
    \A t \in TaskIds :
       py[t].state \in {"running", "waiting"} =>
          /\ \A h \in DOMAIN forks[t] :
                \E i \in DOMAIN py[t].handles : py[t].handles[i] = h
          /\ nextHandle[t] = FirstHandle + Len(py[t].handles)


\* C33: no sandbox subprocess of a task is alive once the task's primary
\* execution has ended, in particular when it ended because the task was
\* deleted at a checkpoint.
C33_NoSubprocessAfterDelete ==
    \A t \in TaskIds :
       (pc[t] = "done" /\ agents[t].status = "deleted") =>
          py[t].state \notin {"running", "waiting"}


\* C32: a wait that is blocked on an unfinished child blocks only the thread
\* that called it: a line another thread of the sandbox has written meanwhile
\* (a fork request, the terminal message) can be served by the bridge while
\* the wait is pending.
C32_WaitBlocksOnlyCaller ==
    \A t \in TaskIds :
       (/\ pc[t] \in MainLive
        /\ py[t].state = "waiting"
        /\ py[t].wait.outcome = "pending"
        /\ py[t].backlog # <<>>) =>
          ENABLED ReadLine(t)


\* C34: a registered task has a result (a non-empty text) only if its status
\* is terminal; while it is running or awaiting the human its result is
\* absent.
C34_ResultOnlyWhenTerminal ==
    \A t \in AGENT_TREE :
       agents[t].result \notin {Null, ""} => agents[t].status \in Terminal


\* C35: when the summary the oracle produces is flagged (it ends with the
\* line NEEDS_MORE_INFO: yes) the task goes on to the final question, where
\* it issues one more human query, instead of going on to its completion:
\* stated of every task that awaits its summary, for the flagged response.
C35_FlaggedSummaryAsksOnce ==
    \A t \in TaskIds :
       pc[t] = "summarize" => AfterSummary(World, t, FlagYes).pc[t] = "final"


\* C36: whenever no responder connection is open no task is suspended on a
\* human query: the queries pending at the close, and those issued after it,
\* have resolved to absent.
C36_NoQueryWithoutResponder ==
    (\A c \in Conns : conn[c] # "open") =>
       \A t \in TaskIds : ~(pc[t] \in AskPoints /\ promise[t].state = "pending")


\* no human query is unanswered and no call of executePython awaits a result
Settled ==
    \A t \in TaskIds :
       /\ promise[t].state # "pending"
       /\ py[t].result # "pending"
       /\ py[t].hung = 0

\* C37: under fair scheduling, if every human query is eventually answered
\* or cancelled and every script's result eventually settles, then once a
\* root task has started, eventually every root task has returned with a
\* terminal status and its agent-completed message has been sent.
C37_RootsTerminate ==
    ([]<>Settled) =>
       ((\E t \in TaskIds : kind[t] = "root" /\ Started(t)) ~>
          (\A t \in TaskIds :
              kind[t] = "root" =>
                 /\ pc[t] = "done"
                 /\ agents[t].status \in Terminal
                 /\ agentCompleted[t] >= 1))

C37_Witness ==
    \E t \in TaskIds :
       /\ kind[t] = "root" /\ pc[t] = "done"
       /\ agents[t].status = "completed"
       /\ agentCompleted[t] = 1
       /\ py[t].state = "closed"
       /\ Settled


\* C38: a task to which the comment delete was written before it emits its
\* terminal snapshot (also while it joins its children or summarizes) does
\* not end with status completed.
C38_DeletedNeverCompletes ==
    [][\A t \in TaskIds :
         (/\ t \in AGENT_TREE
          /\ agents[t].userComment = "delete"
          /\ pc[t] # "done" /\ pc'[t] = "done") =>
            agents'[t].status # "completed"]_vars


\* C39: a registered task that was created with parent p is in the children
\* list of p, every id in a children list is of a task that is registered or
\* has ended with a terminal status, and a children list only grows.
C39_ChildrenListed ==
    [][/\ \A c \in AGENT_TREE' :
            agents'[c].parentId # NoTask =>
               \E i \in DOMAIN agents'[agents'[c].parentId].subagents :
                  agents'[agents'[c].parentId].subagents[i] = c
       /\ \A p \in TaskIds :
            /\ \A i \in DOMAIN agents'[p].subagents :
                  LET c == agents'[p].subagents[i]
                  IN c \in AGENT_TREE' \/ agents'[c].status \in Terminal
            /\ (Started(p) /\ pc[p] # "done") =>
                  /\ Len(agents'[p].subagents) >= Len(agents[p].subagents)
                  /\ SubSeq(agents'[p].subagents, 1, Len(agents[p].subagents))
                        = agents[p].subagents]_vars

====
